---- MODULE Spec2Model ----
(***************************************************************************)
(* Model of src/app/clinicsignup.tsx: the ClinicSignupForm component, its  *)
(* Shift collection (React state `shifts` mirrored in localStorage under   *)
(* "clinicShifts"), the ShiftSelector admin editor, the sign-up form state *)
(* held by react-hook-form, and the asynchronous onSubmit handler.         *)
(*                                                                         *)
(* Dates are millisecond timestamps (Date.getTime()).  A Shift is a record *)
(* [date, pediatricAvailable, adultAvailable].  Event handlers always run  *)
(* with the closure of the latest render; only the continuation of         *)
(* onSubmit after `await axios.post` keeps the closure of the render in    *)
(* which the submit happened, so a request in flight carries the `shifts`  *)
(* array and the `values` it captured.  onSubmit writes the flags of the   *)
(* captured array's objects in place (lines 161, 164) and then installs    *)
(* that array as the state; the component then renders the success view    *)
(* only, so no other holder of those objects reads them afterwards and the *)
(* arrays are modelled by value.                                           *)
(***************************************************************************)
EXTENDS Integers, Sequences, FiniteSets, TLC

VARIABLES
    shifts,             \* useState<Shift[]>, line 90
    storage,            \* localStorage["clinicShifts"]: parsed JSON array
    isSubmitting,       \* line 88
    submitSuccess,      \* line 89
    isAdmin,            \* line 91
    selectedDate,       \* line 92: <<>> (undefined) or <<timestamp>>
    pediatricAvailable, \* ShiftSelector state, line 55 (FALSE while unmounted)
    adultAvailable,     \* ShiftSelector state, line 56 (FALSE while unmounted)
    providerType,       \* form field; "undefined" until selected
    shiftDates,         \* form field: sequence of slot identifiers
    inflight,           \* requests awaiting the POST's outcome
    lastOp,             \* history: the handler that ran last
    handled,            \* history: <<request>> whose outcome was handled last
    argShifts,          \* inputs and outputs of the pure-function
    argFilter,          \*   specification SpecPure
    argShift,
    result,
    result2,
    pc,
    events              \* history: number of handlers run in the session

vars == <<shifts, storage, isSubmitting, submitSuccess, isAdmin, selectedDate,
          pediatricAvailable, adultAvailable, providerType, shiftDates,
          inflight, lastOp, handled, argShifts, argFilter, argShift, result,
          result2, pc, events>>

appVars == <<shifts, storage, isSubmitting, submitSuccess, isAdmin, selectedDate,
             pediatricAvailable, adultAvailable, providerType, shiftDates,
             inflight, lastOp, handled, events>>

pureVars == <<argShifts, argFilter, argShift, result, result2, pc>>

----------------------------------------------------------------------------
(* Bounds and input sets *)

MaxInitShifts == 1    \* longest persisted collection a session starts from
MaxEvents == 8        \* most handlers run in one session
MaxInFlight == 2      \* most requests awaiting an outcome
MaxLen == 2           \* longest collection given to the pure functions

CalendarDays == {86400000, 172800000}   \* days the calendar offers (UTC midnights)

ProviderTypes == {"pediatric", "adult"}

Names == {<<>>, <<"A">>, <<"D", "r">>}
Emails == {"not-an-email", "doctor@example.com"}

----------------------------------------------------------------------------
(* Pure helpers *)

\* Date.prototype.toISOString: the UTC calendar day and the time within it
toISOString(t) == <<t \div 86400000, t % 86400000>>

\* new Date(isoString)
parseDate(iso) == iso[1] * 86400000 + iso[2]

\* `${shift.date.toISOString()}-${providerType}`
slotId(t, p) == <<toISOString(t), p>>

\* Array.prototype.includes
includes(arr, v) == \E i \in DOMAIN arr : arr[i] = v

\* the flatMap callback, lines 129-138
emitAdultFirst(shift) ==
    (IF shift.adultAvailable
        THEN <<[date |-> shift.date, providerType |-> "adult"]>> ELSE <<>>)
    \o
    (IF shift.pediatricAvailable
        THEN <<[date |-> shift.date, providerType |-> "pediatric"]>> ELSE <<>>)

emitShift(shift) ==
    (IF shift.pediatricAvailable
        THEN <<[date |-> shift.date, providerType |-> "pediatric"]>> ELSE <<>>)
    \o
    (IF shift.adultAvailable
        THEN <<[date |-> shift.date, providerType |-> "adult"]>> ELSE <<>>)

RECURSIVE flatMapShifts(_)
flatMapShifts(S) ==
    IF S = <<>> THEN <<>> ELSE emitShift(Head(S)) \o flatMapShifts(Tail(S))

\* the filter callback, line 139
keepShift(e, watchProviderType) ==
    watchProviderType = "undefined" \/ e.providerType = watchProviderType

availableShifts(S, watchProviderType) ==
    LET keep(e) == keepShift(e, watchProviderType)
    IN  SelectSeq(flatMapShifts(S), keep)

\* Array.prototype.findIndex on the date's timestamp; 0 stands for -1
findIndex(S, t) ==
    IF \E i \in DOMAIN S : S[i].date = t
        THEN CHOOSE i \in DOMAIN S :
                /\ S[i].date = t
                /\ \A j \in DOMAIN S : S[j].date = t => i <= j
        ELSE 0

\* addOrUpdateShift, lines 179-186: the array passed to setShifts
upsertAppend(S, newShift) == Append(S, newShift)

upsertPrepend(S, newShift) ==
    LET idx == findIndex(S, newShift.date)
    IN  IF idx # 0
            THEN [i \in DOMAIN S |-> IF i = idx THEN newShift ELSE S[i]]
            ELSE <<newShift>> \o S

upsert(S, newShift) ==
    LET existingShiftIndex == findIndex(S, newShift.date)
    IN  IF existingShiftIndex # 0
            THEN [i \in DOMAIN S |-> IF i = existingShiftIndex THEN newShift ELSE S[i]]
            ELSE Append(S, newShift)

\* the map callback of onSubmit, lines 158-167
clearPediatricOnly(shift, dates) ==
    [date |-> shift.date,
     pediatricAvailable |->
        IF includes(dates, slotId(shift.date, "pediatric"))
            THEN FALSE ELSE shift.pediatricAvailable,
     adultAvailable |-> shift.adultAvailable]

clearBooked(shift, dates) ==
    [date |-> shift.date,
     pediatricAvailable |->
        IF includes(dates, slotId(shift.date, "pediatric"))
            THEN FALSE ELSE shift.pediatricAvailable,
     adultAvailable |->
        IF includes(dates, slotId(shift.date, "adult"))
            THEN FALSE ELSE shift.adultAvailable]

updatedShifts(S, dates) == [i \in DOMAIN S |-> clearBooked(S[i], dates)]

\* JSON.stringify(updatedShifts): a Date serialises through toISOString
JSONstringify(S) ==
    [i \in DOMAIN S |->
        [date |-> toISOString(S[i].date),
         pediatricAvailable |-> S[i].pediatricAvailable,
         adultAvailable |-> S[i].adultAvailable]]

\* JSON.parse(storedShifts).map(...), lines 101-104
parseStored(st) ==
    [i \in DOMAIN st |->
        [date |-> parseDate(st[i].date),
         pediatricAvailable |-> st[i].pediatricAvailable,
         adultAvailable |-> st[i].adultAvailable]]

\* formSchema, lines 30-44
nameValid(name) == Len(name) >= 2
emailValid(email) == email = "doctor@example.com"
formValid(values) ==
    /\ nameValid(values.name)
    /\ emailValid(values.email)
    /\ Len(values.shiftDates) >= 1
    /\ values.providerType \in ProviderTypes

----------------------------------------------------------------------------
(* What is rendered *)

FormRendered == ~submitSuccess                       \* lines 197-206
AdminRendered == FormRendered /\ isAdmin             \* line 209
SelectorMounted == AdminRendered /\ selectedDate # <<>>   \* line 214
SubmitEnabledAlways == TRUE
SubmitEnabled == ~isSubmitting                       \* line 331

\* currentShift prop, line 218: <<>> (undefined) or <<the Shift found>>
currentShift(S, sel) ==
    IF sel = <<>> \/ findIndex(S, sel[1]) = 0
        THEN <<>> ELSE <<S[findIndex(S, sel[1])]>>

AllShifts ==
    [date : CalendarDays, pediatricAvailable : BOOLEAN, adultAvailable : BOOLEAN]

SeqsUpTo(S, n) == UNION {[1..k -> S] : k \in 0..n}

UniqueDates(S) == \A i, j \in DOMAIN S : S[i].date = S[j].date => i = j

----------------------------------------------------------------------------
(* The component after its mount effect, lines 95-114 *)

InitialStores ==
    {JSONstringify(S) : S \in {T \in SeqsUpTo(AllShifts, MaxInitShifts) : UniqueDates(T)}}

PureIdle ==
    /\ argShifts = <<>>
    /\ argFilter = "undefined"
    /\ argShift = [date |-> 86400000, pediatricAvailable |-> FALSE,
                   adultAvailable |-> FALSE]
    /\ result = <<>>
    /\ result2 = <<>>

Init ==
    /\ storage \in InitialStores
    /\ shifts = parseStored(storage)
    /\ isAdmin \in BOOLEAN
    /\ isSubmitting = FALSE
    /\ submitSuccess = FALSE
    /\ selectedDate = <<>>
    /\ pediatricAvailable = FALSE
    /\ adultAvailable = FALSE
    /\ providerType = "undefined"
    /\ shiftDates = <<>>
    /\ inflight = <<>>
    /\ lastOp = "init"
    /\ handled = <<>>
    /\ PureIdle
    /\ pc = "app"
    /\ events = 0

History(op, req) ==
    /\ events < MaxEvents
    /\ events' = events + 1
    /\ lastOp' = op
    /\ handled' = req

\* ShiftSelector across a render: unmounted => no state; mounted anew or
\* currentShift changed => the effect of lines 58-61 seeds the toggles;
\* otherwise the toggles keep their values
RenderSelector ==
    LET before == currentShift(shifts, selectedDate)
        after == currentShift(shifts', selectedDate')
        mounted == ~submitSuccess' /\ isAdmin' /\ selectedDate' # <<>>
    IN  IF ~mounted
            THEN pediatricAvailable' = FALSE /\ adultAvailable' = FALSE
        ELSE IF ~SelectorMounted \/ before # after
            THEN /\ pediatricAvailable' =
                        (IF after = <<>> THEN FALSE ELSE after[1].pediatricAvailable)
                 /\ adultAvailable' =
                        (IF after = <<>> THEN FALSE ELSE after[1].adultAvailable)
        ELSE UNCHANGED <<pediatricAvailable, adultAvailable>>

\* handleDateSelect, lines 141-145; the calendar reports a click on the
\* selected day as undefined
HandleDateSelect(day) ==
    /\ pc = "app"
    /\ AdminRendered
    /\ IF day = <<>> THEN selectedDate # <<>> ELSE day # selectedDate
    /\ selectedDate' = (IF day # <<>> THEN day ELSE selectedDate)
    /\ UNCHANGED <<shifts, storage, isSubmitting, submitSuccess, isAdmin,
                   providerType, shiftDates, inflight>>
    /\ RenderSelector
    /\ History("ui", <<>>)
    /\ UNCHANGED pureVars

\* ShiftSelector checkboxes, lines 70 and 78
SetPediatricAvailable(checked) ==
    /\ pc = "app"
    /\ SelectorMounted
    /\ checked # pediatricAvailable
    /\ pediatricAvailable' = checked
    /\ UNCHANGED <<shifts, storage, isSubmitting, submitSuccess, isAdmin,
                   selectedDate, adultAvailable, providerType, shiftDates, inflight>>
    /\ History("ui", <<>>)
    /\ UNCHANGED pureVars

SetAdultAvailable(checked) ==
    /\ pc = "app"
    /\ SelectorMounted
    /\ checked # adultAvailable
    /\ adultAvailable' = checked
    /\ UNCHANGED <<shifts, storage, isSubmitting, submitSuccess, isAdmin,
                   selectedDate, pediatricAvailable, providerType, shiftDates,
                   inflight>>
    /\ History("ui", <<>>)
    /\ UNCHANGED pureVars

\* Save button, line 82, calling addOrUpdateShift, lines 178-191
SaveShift ==
    /\ pc = "app"
    /\ SelectorMounted
    /\ LET newShift == [date |-> selectedDate[1],
                        pediatricAvailable |-> pediatricAvailable,
                        adultAvailable |-> adultAvailable]
       IN  shifts' = upsert(shifts, newShift)
    /\ storage' = JSONstringify(shifts')
    /\ selectedDate' = <<>>
    /\ UNCHANGED <<isSubmitting, submitSuccess, isAdmin, providerType,
                   shiftDates, inflight>>
    /\ RenderSelector
    /\ History("save", <<>>)
    /\ UNCHANGED pureVars

\* "Switch to Provider View", line 337
SwitchToProviderView ==
    /\ pc = "app"
    /\ AdminRendered
    /\ isAdmin' = FALSE
    /\ UNCHANGED <<shifts, storage, isSubmitting, submitSuccess, selectedDate,
                   providerType, shiftDates, inflight>>
    /\ RenderSelector
    /\ History("ui", <<>>)
    /\ UNCHANGED pureVars

\* provider type Select, line 258
SelectProviderType(p) ==
    /\ pc = "app"
    /\ FormRendered
    /\ p # providerType
    /\ providerType' = p
    /\ UNCHANGED <<shifts, storage, isSubmitting, submitSuccess, isAdmin,
                   selectedDate, pediatricAvailable, adultAvailable, shiftDates,
                   inflight>>
    /\ History("ui", <<>>)
    /\ UNCHANGED pureVars

\* a slot checkbox, lines 280-302: one is rendered per entry of availableShifts
ToggleSlot(k) ==
    /\ pc = "app"
    /\ FormRendered
    /\ k \in DOMAIN availableShifts(shifts, providerType)
    /\ LET shift == availableShifts(shifts, providerType)[k]
           value == slotId(shift.date, shift.providerType)
           keep(v) == v # value
       IN  IF ~includes(shiftDates, value)
               THEN shiftDates' = Append(shiftDates, value)
               ELSE shiftDates' = SelectSeq(shiftDates, keep)
    /\ UNCHANGED <<shifts, storage, isSubmitting, submitSuccess, isAdmin,
                   selectedDate, pediatricAvailable, adultAvailable, providerType,
                   inflight>>
    /\ History("ui", <<>>)
    /\ UNCHANGED pureVars

\* submit button, lines 225 and 331; onSubmit up to the await, lines 147-153
Submit(name, email) ==
    /\ pc = "app"
    /\ FormRendered
    /\ SubmitEnabled
    /\ Len(inflight) < MaxInFlight
    /\ LET values == [name |-> name, email |-> email, shiftDates |-> shiftDates,
                      providerType |-> providerType, notes |-> ""]
       IN  /\ formValid(values)
           /\ inflight' = Append(inflight, [values |-> values, shifts |-> shifts])
           /\ History("submit", <<>>)
    /\ isSubmitting' = TRUE
    /\ UNCHANGED <<shifts, storage, submitSuccess, isAdmin, selectedDate,
                   pediatricAvailable, adultAvailable, providerType, shiftDates>>
    /\ UNCHANGED pureVars

RemoveAt(s, i) == [j \in 1..(Len(s) - 1) |-> IF j < i THEN s[j] ELSE s[j + 1]]

\* onSubmit after the await, lines 154-175: the statements of lines 155-169
\* run only when the POST resolved; the catch and finally blocks touch
\* neither `shifts` nor localStorage
shiftsAfterSubmitAlways(ok, request, current) ==
    updatedShifts(request.shifts, request.values.shiftDates)

shiftsAfterSubmit(ok, request, current) ==
    IF ok
        THEN updatedShifts(request.shifts, request.values.shiftDates)
        ELSE current

SettleSubmit(i, ok) ==
    /\ pc = "app"
    /\ i \in DOMAIN inflight
    /\ submitSuccess' = ok                                       \* lines 155, 172
    /\ IF ok
          THEN providerType' = "undefined" /\ shiftDates' = <<>>  \* line 156
          ELSE UNCHANGED <<providerType, shiftDates>>
    /\ shifts' = shiftsAfterSubmit(ok, inflight[i], shifts)       \* line 168
    /\ storage' = (IF ok THEN JSONstringify(shifts') ELSE storage) \* line 169
    /\ isSubmitting' = FALSE                                      \* line 174
    /\ inflight' = RemoveAt(inflight, i)
    /\ UNCHANGED <<isAdmin, selectedDate>>
    /\ RenderSelector
    /\ History(IF ok THEN "success" ELSE "failure", <<inflight[i]>>)
    /\ UNCHANGED pureVars

\* the POST resolved with a 2xx status
PostSucceeds(i) == SettleSubmit(i, TRUE)

\* the POST rejected: transport error or non-2xx status
PostFails(i) == SettleSubmit(i, FALSE)

Next ==
    \/ \E day \in {<<>>} \cup {<<t>> : t \in CalendarDays} : HandleDateSelect(day)
    \/ \E checked \in BOOLEAN : SetPediatricAvailable(checked)
    \/ \E checked \in BOOLEAN : SetAdultAvailable(checked)
    \/ SaveShift
    \/ SwitchToProviderView
    \/ \E p \in ProviderTypes : SelectProviderType(p)
    \/ \E k \in 1..(2 * Cardinality(CalendarDays)) : ToggleSlot(k)
    \/ \E name \in Names, email \in Emails : Submit(name, email)
    \/ \E i \in 1..MaxInFlight : PostSucceeds(i)
    \/ \E i \in 1..MaxInFlight : PostFails(i)

Spec == Init /\ [][Next]_vars

----------------------------------------------------------------------------
(* The pure functions applied to arbitrary inputs *)

InitPure ==
    /\ shifts = <<>>
    /\ storage = <<>>
    /\ isAdmin = FALSE
    /\ isSubmitting = FALSE
    /\ submitSuccess = FALSE
    /\ selectedDate = <<>>
    /\ pediatricAvailable = FALSE
    /\ adultAvailable = FALSE
    /\ providerType = "undefined"
    /\ shiftDates = <<>>
    /\ inflight = <<>>
    /\ lastOp = "init"
    /\ handled = <<>>
    /\ argShifts \in SeqsUpTo(AllShifts, MaxLen)
    /\ argFilter \in ProviderTypes \cup {"undefined"}
    /\ argShift \in AllShifts
    /\ result = <<>>
    /\ result2 = <<>>
    /\ pc = "start"
    /\ events = 0

Project ==
    /\ pc = "start"
    /\ result' = availableShifts(argShifts, argFilter)
    /\ pc' = "projected"
    /\ UNCHANGED <<argShifts, argFilter, argShift, result2>>
    /\ UNCHANGED appVars

UpsertOnce ==
    /\ pc = "start"
    /\ result' = upsert(argShifts, argShift)
    /\ pc' = "upserted"
    /\ UNCHANGED <<argShifts, argFilter, argShift, result2>>
    /\ UNCHANGED appVars

UpsertAgain ==
    /\ pc = "upserted"
    /\ result2' = upsert(result, argShift)
    /\ pc' = "upsertedTwice"
    /\ UNCHANGED <<argShifts, argFilter, argShift, result>>
    /\ UNCHANGED appVars

NextPure == Project \/ UpsertOnce \/ UpsertAgain

SpecPure == InitPure /\ [][NextPure]_vars

----------------------------------------------------------------------------
(* Properties *)

Flag(shift, p) ==
    IF p = "pediatric" THEN shift.pediatricAvailable ELSE shift.adultAvailable

\* the persisted value holds the collection S, entry by entry
Mirrors(st, S) ==
    /\ Len(st) = Len(S)
    /\ \A i \in DOMAIN S :
        /\ st[i].date = toISOString(S[i].date)
        /\ st[i].pediatricAvailable = S[i].pediatricAvailable
        /\ st[i].adultAvailable = S[i].adultAvailable

\* C1: handling a failed POST clears isSubmitting, leaves submitSuccess false
\* and leaves `shifts` and the persisted value as they were just before.
FailureLeavesStoreUnmodified ==
    [][lastOp' = "failure" =>
        /\ ~isSubmitting'
        /\ ~submitSuccess'
        /\ shifts' = shifts
        /\ storage' = storage]_vars

\* a failure handled after the admin changed the store while the request
\* was in flight
FailureHandledAfterAdminSave ==
    /\ lastOp = "failure"
    /\ handled[1].shifts # shifts
    /\ shifts # <<>>
    /\ ~isSubmitting

\* C2: after a successful submission every Shift of the store whose date
\* serialises to the ISO part of a submitted slot identifier has that
\* provider type's flag false, the persisted value holds the same collection
\* and the success view is shown.
SuccessClearsBookedSlots ==
    lastOp = "success" =>
        /\ submitSuccess
        /\ \A k \in DOMAIN handled[1].values.shiftDates :
            \A i \in DOMAIN shifts :
                toISOString(shifts[i].date) = handled[1].values.shiftDates[k][1]
                    => ~Flag(shifts[i], handled[1].values.shiftDates[k][2])
        /\ Mirrors(storage, shifts)

\* a success that booked an adult slot of a Shift still in the store
SuccessBookedAdultSlot ==
    /\ lastOp = "success"
    /\ \E k \in DOMAIN handled[1].values.shiftDates :
        \E i \in DOMAIN shifts :
            /\ toISOString(shifts[i].date) = handled[1].values.shiftDates[k][1]
            /\ handled[1].values.shiftDates[k][2] = "adult"
            /\ shifts[i].pediatricAvailable

\* C3: the store never holds two Shifts with the same timestamp.
OneShiftPerDate ==
    \A i, j \in DOMAIN shifts : shifts[i].date = shifts[j].date => i = j

\* a submission completed after the admin saved a second date while it was
\* in flight
CompletionAfterSavesWithTwoShifts ==
    /\ lastOp \in {"success", "failure"}
    /\ Len(shifts) = 2
    /\ Len(handled[1].shifts) = 2
    /\ handled[1].shifts # shifts

\* C4: a Shift is never deleted: every date that has a Shift in the
\* in-memory store before a step has one in the in-memory store and in the
\* persisted value after it.
ShiftNeverDeleted ==
    [][\A i \in DOMAIN shifts :
        /\ \E j \in DOMAIN shifts' : shifts'[j].date = shifts[i].date
        /\ \E j \in DOMAIN storage' :
                storage'[j].date = toISOString(shifts[i].date)]_vars

\* C5: every entry of the projection comes from a Shift with that date whose
\* flag for the entry's provider type is true, and matches the filter when
\* one is set; the unfiltered projection lists every (Shift, true flag) pair
\* exactly once, in store order, pediatric before adult.
TrueFlagPairs ==
    {q \in (DOMAIN argShifts) \X ProviderTypes : Flag(argShifts[q[1]], q[2])}

PairRank(q) ==
    1 + Cardinality({r \in TrueFlagPairs :
            \/ r[1] < q[1]
            \/ r[1] = q[1] /\ r[2] = "pediatric" /\ q[2] = "adult"})

ProjectionSoundAndComplete ==
    pc = "projected" =>
        /\ \A k \in DOMAIN result :
            /\ \E i \in DOMAIN argShifts :
                /\ argShifts[i].date = result[k].date
                /\ result[k].providerType \in ProviderTypes
                /\ Flag(argShifts[i], result[k].providerType)
            /\ argFilter # "undefined" => result[k].providerType = argFilter
        /\ argFilter = "undefined" =>
            /\ Len(result) = Cardinality(TrueFlagPairs)
            /\ \A q \in TrueFlagPairs :
                result[PairRank(q)] =
                    [date |-> argShifts[q[1]].date, providerType |-> q[2]]

\* an unfiltered projection of two Shifts with both flags true
ProjectedFourEntries ==
    /\ pc = "projected"
    /\ argFilter = "undefined"
    /\ Len(result) = 4

\* C6: Save with date d selected and toggles (p, a) leaves exactly one Shift
\* for d, with flags (p, a); every Shift of another date keeps its value
\* and position; the persisted value equals the new collection; selectedDate
\* is cleared.
SaveUpsertsSelectedDate ==
    [][lastOp' = "save" =>
        /\ Cardinality({i \in DOMAIN shifts' :
                            shifts'[i].date = selectedDate[1]}) = 1
        /\ \A i \in DOMAIN shifts' :
            shifts'[i].date = selectedDate[1] =>
                /\ shifts'[i].pediatricAvailable = pediatricAvailable
                /\ shifts'[i].adultAvailable = adultAvailable
        /\ \A i \in DOMAIN shifts :
            shifts[i].date # selectedDate[1] =>
                i \in DOMAIN shifts' /\ shifts'[i] = shifts[i]
        /\ Mirrors(storage', shifts')
        /\ selectedDate' = <<>>]_vars

\* a Save that added a second date next to a Shift already stored
SavedSecondDate ==
    /\ lastOp = "save"
    /\ Len(shifts) = 2
    /\ selectedDate = <<>>
    /\ shifts[2].pediatricAvailable

\* C7: once submitSuccess is true it stays true, and no request is started.
SuccessViewPersists ==
    [][submitSuccess =>
        /\ submitSuccess'
        /\ Len(inflight') <= Len(inflight)]_vars

\* the success view after a submission succeeded
SuccessViewShown ==
    /\ submitSuccess
    /\ lastOp = "success"
    /\ ~isSubmitting
    /\ inflight = <<>>

\* C8: upsert(x) applied twice in a row yields the collection that applying
\* it once yields.
UpsertIdempotent ==
    pc = "upsertedTwice" => result2 = result

\* upsert applied twice with a Shift whose date the collection did not hold
UpsertedNewDateTwice ==
    /\ pc = "upsertedTwice"
    /\ Len(argShifts) >= 1
    /\ Len(result) = Len(argShifts) + 1

\* C9: handling a success changes only the flags the submitted slot
\* identifiers name: every other flag of every Shift of the store keeps its
\* value in memory and in the persisted value.
SuccessChangesOnlyBookedFlags ==
    [][lastOp' = "success" =>
        \A i \in DOMAIN shifts : \A p \in ProviderTypes :
            ~includes(handled'[1].values.shiftDates,
                      <<toISOString(shifts[i].date), p>>) =>
                /\ \E j \in DOMAIN shifts' :
                    /\ shifts'[j].date = shifts[i].date
                    /\ Flag(shifts'[j], p) = Flag(shifts[i], p)
                /\ \E j \in DOMAIN storage' :
                    /\ storage'[j].date = toISOString(shifts[i].date)
                    /\ Flag(storage'[j], p) = Flag(shifts[i], p)]_vars

\* C10: when a submission is sent, every slot identifier of its shiftDates
\* carries the payload's providerType and names a Shift of the store whose
\* flag for that provider type is true.
SubmittedSlotsAreAvailable ==
    [][lastOp' = "submit" =>
        LET values == inflight'[Len(inflight')].values
        IN  \A k \in DOMAIN values.shiftDates :
                /\ values.shiftDates[k][2] = values.providerType
                /\ \E i \in DOMAIN shifts :
                    /\ toISOString(shifts[i].date) = values.shiftDates[k][1]
                    /\ Flag(shifts[i], values.providerType)]_vars

====
